---- MODULE Spec2Model ----
(***************************************************************************)
(* Model of rcli's text cryptographic operations (src/process/text.rs),    *)
(* the format parser (src/cli/text.rs), the key generation command, the    *)
(* file argument check (src/cli/mod.rs), the password generator            *)
(* (src/process/gen_pass.rs) and the JWT commands (src/process/jwt.rs).    *)
(*                                                                         *)
(* A value of type Result<T> is a record [tag, val, err]:                  *)
(*   tag = "Ok"    the call returned Ok(val)                               *)
(*   tag = "Err"   the call returned Err(err) to its caller                *)
(*   tag = "Panic" the call did not return: the thread panicked (err says  *)
(*                 where), which for the CLI aborts the process            *)
(* Byte strings are sequences over 0..255.  The three external crates      *)
(* (blake3, ed25519_dalek, chacha20poly1305) are modelled by small         *)
(* arithmetic functions over bytes that keep the shapes of the real ones   *)
(* (widths, determinism, dependence on every input).                       *)
(***************************************************************************)
EXTENDS Integers, Sequences, FiniteSets, TLC

VARIABLES files, first, last, pc

vars == <<files, first, last, pc>>

(***************************** program constants ***************************)

\* [u8; 32]: width of a Blake3 key, an Ed25519 secret or public key, a ChaCha20 key
KEY_LEN == 32
\* width of an Ed25519 signature (sig[..64])
SIG_LEN == 64
\* width of a ChaCha20Poly1305 nonce (96 bits)
NONCE_LEN == 12
\* width of the Poly1305 tag the AEAD appends to the ciphertext
TAG_LEN == 16
\* width of a blake3 digest
HASH_LEN == 32
\* the length Blake3::generate asks process_genpass for
GENPASS_KEY_LEN == 32
\* u8 arithmetic is modulo 2^8
U8_MOD == 256

\* Duration::days(14): the expiry of a token when --exp names none
DEFAULT_DAYS == 14
\* seconds of a day, an hour, a minute (chrono::Duration)
SECS_PER_DAY == 86400
SECS_PER_HOUR == 3600
SECS_PER_MINUTE == 60
\* Validation::new: leeway of 60 seconds on exp
LEEWAY == 60

(******************************** bounds ***********************************)

\* longest suffix appended to 32 bytes of key material
MaxSuffix == 1
\* longest plaintext / signed message
MaxMsgLen == 1
\* number of distinct outcomes of each random draw (seeds 0..MaxSeed)
MaxSeed == 1

(******************************* byte strings ******************************)

Mod256(n) == n % U8_MOD

Take(s, n) == SubSeq(s, 1, n)

Drop(s, n) == SubSeq(s, n + 1, Len(s))

\* position i of s, read cyclically
Cyc(s, i) == s[((i - 1) % Len(s)) + 1]

\* flip the lowest bit of byte i of s
FlipBit(s, i) == [s EXCEPT ![i] = IF s[i] % 2 = 0 THEN s[i] + 1 ELSE s[i] - 1]

Ok(v) == [tag |-> "Ok", val |-> v, err |-> ""]

Err(e) == [tag |-> "Err", val |-> <<>>, err |-> e]

Panic(e) == [tag |-> "Panic", val |-> <<>>, err |-> e]

IsOk(r) == r.tag = "Ok"

(************************* external crates (abstracted) ********************)

\* what the bytes of buf contribute to position i of a w-byte block
SumAt(buf, i, w) ==
    LET f[j \in 0..Len(buf)] ==
            IF j = 0 THEN 0
            ELSE f[j - 1] + (IF ((j - 1) % w) + 1 = i THEN buf[j] ELSE 0)
    IN  Len(buf) + f[Len(buf)]

\* mutant of keyed_hash: the digest does not depend on the key
keyed_hash_unkeyed(key, buf) ==
    [i \in 1..HASH_LEN |-> Mod256(SumAt(buf, i, HASH_LEN))]

\* blake3::keyed_hash(&[u8; 32], &[u8]) -> 32-byte digest
keyed_hash(key, buf) ==
    [i \in 1..HASH_LEN |-> Mod256(key[i] + SumAt(buf, i, HASH_LEN))]

\* SigningKey::verifying_key: the public key derived from a secret key
verifying_key(sk) ==
    [i \in 1..KEY_LEN |->
        IF i = KEY_LEN THEN sk[i] % 128 ELSE Mod256(sk[i] + 1)]

\* VerifyingKey::from_bytes succeeds only on the encoding of a curve point
IsCurvePoint(b) == b[KEY_LEN] < 128

\* the one 64-byte signature of buf that verifies under public key pk
ed25519_signature(pk, buf) ==
    [i \in 1..SIG_LEN |->
        IF i <= KEY_LEN
        THEN Mod256(pk[i] + SumAt(buf, i, KEY_LEN))
        ELSE Mod256(5 * pk[i - KEY_LEN] + SumAt(buf, i - KEY_LEN, KEY_LEN) + i)]

\* Signer::sign for SigningKey (deterministic)
ed25519_sign(sk, buf) == ed25519_signature(verifying_key(sk), buf)

\* Verifier::verify(..).is_ok() for VerifyingKey
ed25519_verify_ok(pk, buf, sig) == sig = ed25519_signature(pk, buf)

\* ChaCha20 keystream byte i under (key, nonce)
keystream(key, nonce, i) == Mod256(Cyc(key, i) + Cyc(nonce, i) + i)

\* mutant of poly1305_tag: the tag does not depend on the nonce
poly1305_tag_nonceless(key, nonce, body) ==
    [j \in 1..TAG_LEN |->
        Mod256(key[j] + 3 * key[j + TAG_LEN] + SumAt(body, j, TAG_LEN))]

\* Poly1305 tag over the ciphertext body under (key, nonce)
poly1305_tag(key, nonce, body) ==
    [j \in 1..TAG_LEN |->
        Mod256(key[j] + 3 * key[j + TAG_LEN] + Cyc(nonce, j) + SumAt(body, j, TAG_LEN))]

\* Aead::encrypt(&nonce, plaintext): body followed by the 16-byte tag
aead_encrypt(key, nonce, pt) ==
    LET body == [i \in 1..Len(pt) |-> Mod256(pt[i] + keystream(key, nonce, i))]
    IN  Ok(body \o poly1305_tag(key, nonce, body))

\* Aead::decrypt(&nonce, ciphertext): Err(aead::Error) unless the tag verifies
aead_decrypt(key, nonce, ct) ==
    IF Len(ct) < TAG_LEN THEN Err("aead::Error")
    ELSE LET body == Take(ct, Len(ct) - TAG_LEN)
             tag  == Drop(ct, Len(ct) - TAG_LEN)
         IN  IF tag # poly1305_tag(key, nonce, body) THEN Err("aead::Error")
             ELSE Ok([i \in 1..Len(body) |->
                        Mod256(body[i] + U8_MOD - keystream(key, nonce, i))])

\* n bytes from the operating system's random source (rand's OsRng) in
\* state seed
OsRng(seed, n) == [i \in 1..n |-> Mod256(41 * seed + i * (seed + 3) + 7)]

\* Read::read_to_end on a reader [data, fails]
read_to_end(reader) ==
    IF reader.fails THEN Err("io::Error") ELSE Ok(reader.data)

(*************************** src/process/text.rs ***************************)

\* impl TextSigner for Blake3
Blake3_sign(self, reader) ==
    LET buf == read_to_end(reader)
    IN  IF ~IsOk(buf) THEN buf
        ELSE Ok(keyed_hash(self.key, buf.val))

\* mutant of Blake3_verify: the digest is recomputed without the key
\* (blake3::hash instead of blake3::keyed_hash)
Blake3_verify_unkeyed(self, reader, sig) ==
    LET buf == read_to_end(reader)
    IN  IF ~IsOk(buf) THEN buf
        ELSE Ok(keyed_hash([i \in 1..KEY_LEN |-> 0], buf.val) = sig)

\* impl TextVerifier for Blake3
Blake3_verify(self, reader, sig) ==
    LET buf == read_to_end(reader)
    IN  IF ~IsOk(buf) THEN buf
        ELSE Ok(keyed_hash(self.key, buf.val) = sig)

\* impl TextSigner for Ed25519Signer
Ed25519Signer_sign(self, reader) ==
    LET buf == read_to_end(reader)
    IN  IF ~IsOk(buf) THEN buf
        ELSE Ok(ed25519_sign(self.key, buf.val))

\* mutant of Ed25519Verifier_verify: a failed verification is propagated as
\* an error (verify(..)? instead of verify(..).is_ok())
Ed25519Verifier_verify_strict(self, reader, sig) ==
    LET buf == read_to_end(reader)
    IN  IF ~IsOk(buf) THEN buf
        ELSE IF Len(sig) < SIG_LEN THEN Panic("range end index 64 out of range")
        ELSE IF ed25519_verify_ok(self.key, buf.val, Take(sig, SIG_LEN)) THEN Ok(TRUE)
        ELSE Err("SignatureError")

\* mutant of Ed25519Verifier_verify: only the first half of the signature
\* (the point R) is compared
Ed25519Verifier_verify_half(self, reader, sig) ==
    LET buf == read_to_end(reader)
    IN  IF ~IsOk(buf) THEN buf
        ELSE IF Len(sig) < SIG_LEN THEN Panic("range end index 64 out of range")
        ELSE Ok(Take(sig, KEY_LEN) = Take(ed25519_signature(self.key, buf.val), KEY_LEN))

\* impl TextVerifier for Ed25519Verifier: sig[..64] panics on a shorter
\* slice and keeps the first 64 bytes of a longer one
Ed25519Verifier_verify(self, reader, sig) ==
    LET buf == read_to_end(reader)
    IN  IF ~IsOk(buf) THEN buf
        ELSE IF Len(sig) < SIG_LEN THEN Panic("range end index 64 out of range")
        ELSE Ok(ed25519_verify_ok(self.key, buf.val, Take(sig, SIG_LEN)))

\* impl TextEncrypter for Chacha20
Chacha20_encrypt(self, reader) ==
    LET buf == read_to_end(reader)
    IN  IF ~IsOk(buf) THEN buf
        ELSE aead_encrypt(self.key, self.nonce, buf.val)

\* mutant of Chacha20_decrypt: the tag is cut off before the AEAD sees
\* the ciphertext
Chacha20_decrypt_tagless(self, ciphertext) ==
    aead_decrypt(self.key, self.nonce, Take(ciphertext, Len(ciphertext) - TAG_LEN))

\* impl TextDecrypter for Chacha20
Chacha20_decrypt(self, ciphertext) ==
    aead_decrypt(self.key, self.nonce, ciphertext)

\* mutant of Blake3_try_new: the last 32 bytes of the key material are kept
\* instead of the first 32
Blake3_try_new_last32(key) ==
    IF Len(key) < KEY_LEN THEN Panic("range end index 32 out of range")
    ELSE Ok([key |-> Drop(key, Len(key) - KEY_LEN)])

\* Blake3::try_new: key[..32] panics on a shorter slice; the conversion of
\* the 32-byte slice to [u8; 32] cannot fail
Blake3_try_new(key) ==
    IF Len(key) < KEY_LEN THEN Panic("range end index 32 out of range")
    ELSE Ok([key |-> Take(key, KEY_LEN)])

\* Ed25519Signer::try_new
Ed25519Signer_try_new(key) ==
    IF Len(key) < KEY_LEN THEN Panic("range end index 32 out of range")
    ELSE Ok([key |-> Take(key, KEY_LEN)])

\* Ed25519Verifier::try_new
Ed25519Verifier_try_new(key) ==
    IF Len(key) < KEY_LEN THEN Panic("range end index 32 out of range")
    ELSE IF ~IsCurvePoint(Take(key, KEY_LEN)) THEN Err("SignatureError")
    ELSE Ok([key |-> Take(key, KEY_LEN)])

\* the part of the file system the program reads at fixed paths; a path is
\* <<directory, file name>> and a file is [exists, data]
NONCE_PATH == <<"fixtures", "chacha20.nonce">>

SECRET_KEY == <<"fixtures", "chacha20.key">>

Paths == {NONCE_PATH, SECRET_KEY}

NoFile == [exists |-> FALSE, data |-> <<>>]

File(bytes) == [exists |-> TRUE, data |-> bytes]

\* utils::get_reader on a file path: a reader over the file, or the error
\* of File::open
get_reader(fs, path) ==
    IF fs[path].exists THEN Ok([data |-> fs[path].data, fails |-> FALSE])
    ELSE Err("io::Error")

\* mutant of Chacha20_try_new: a nonce is made up for each call instead of
\* being read from the nonce file
Chacha20_try_new_fresh(fs, input) ==
    IF Len(input) # KEY_LEN THEN Panic("clone_from_slice: key length mismatch")
    ELSE Ok([key |-> input, nonce |-> OsRng(IF pc = "start" THEN 2 ELSE 3, NONCE_LEN)])

\* Chacha20::try_new: Key::clone_from_slice and Nonce::clone_from_slice
\* panic unless the slice has exactly the array's length
Chacha20_try_new(fs, input) ==
    IF Len(input) # KEY_LEN THEN Panic("clone_from_slice: key length mismatch")
    ELSE LET reader == get_reader(fs, NONCE_PATH)
         IN  IF ~IsOk(reader) THEN reader
             ELSE LET nonce == read_to_end(reader.val)
                  IN  IF ~IsOk(nonce) THEN nonce
                      ELSE IF Len(nonce.val) # NONCE_LEN
                      THEN Panic("clone_from_slice: nonce length mismatch")
                      ELSE Ok([key |-> input, nonce |-> nonce.val])

(************************* src/process/gen_pass.rs *************************)

UPPER == <<65, 66, 67, 68, 69, 70, 71, 72, 74, 75, 76, 77,
           78, 80, 81, 82, 83, 84, 85, 86, 87, 88, 89, 90>>

LOWER == <<97, 98, 99, 100, 101, 102, 103, 104, 106, 107, 108, 109,
           110, 112, 113, 114, 115, 116, 117, 118, 119, 120, 121, 122>>

NUMBER == <<50, 51, 52, 53, 54, 55, 56, 57>>

SYMBOL == <<33, 64, 35, 36, 37, 94, 38, 42, 95>>

\* the k-th draw of the random generator seeded with seed
Rand(seed, k) == seed * 13 + k * (2 * seed + 1)

\* SliceRandom::choose on a non-empty slice
choose(s, seed, k) == s[(Rand(seed, k) % Len(s)) + 1]

\* SliceRandom::shuffle: a permutation of p picked by the generator
shuffle(p, seed) ==
    [i \in 1..Len(p) |-> p[((i - 1 + Rand(seed, 0)) % Len(p)) + 1]]

\* process_genpass; overflow_checks tells whether the build panics on u8
\* overflow (debug profile) or wraps (release profile)
process_genpass(length, upper, lower, number, special, seed, overflow_checks) ==
    LET p1 == IF upper THEN <<choose(UPPER, seed, 1)>> ELSE <<>>
        p2 == p1 \o (IF lower THEN <<choose(LOWER, seed, 2)>> ELSE <<>>)
        p3 == p2 \o (IF number THEN <<choose(NUMBER, seed, 3)>> ELSE <<>>)
        p4 == p3 \o (IF special THEN <<choose(SYMBOL, seed, 4)>> ELSE <<>>)
        chars == (IF upper THEN UPPER ELSE <<>>) \o (IF lower THEN LOWER ELSE <<>>)
                 \o (IF number THEN NUMBER ELSE <<>>) \o (IF special THEN SYMBOL ELSE <<>>)
        n == Len(p4) % U8_MOD
        count == (length - n + U8_MOD) % U8_MOD
    IN  IF length < n /\ overflow_checks THEN Panic("attempt to subtract with overflow")
        ELSE IF count > 0 /\ Len(chars) = 0
        THEN Panic("chars won't be empty in this context")
        ELSE Ok(shuffle(p4 \o [k \in 1..count |-> choose(chars, seed, 4 + k)], seed))

(********************** key generation (text.rs) ***************************)

\* Blake3::generate
Blake3_generate(seed, overflow_checks) ==
    LET key == process_genpass(GENPASS_KEY_LEN, TRUE, TRUE, TRUE, TRUE,
                               seed, overflow_checks)
    IN  IF ~IsOk(key) THEN key
        ELSE Ok([k \in {"blake3.txt"} |-> key.val])

\* Ed25519Signer::generate
Ed25519Signer_generate(seed) ==
    LET sk == OsRng(seed, KEY_LEN)
        pk == verifying_key(sk)
    IN  Ok([k \in {"ed25519.sk", "ed25519.pk"} |->
              IF k = "ed25519.sk" THEN sk ELSE pk])

\* mutant of Chacha20_generate: a 24-byte (XChaCha20) nonce is generated
Chacha20_generate_xnonce(seed) ==
    LET key   == OsRng(seed, KEY_LEN)
        nonce == OsRng(seed, 2 * NONCE_LEN)
    IN  Ok([k \in {"chacha20.key", "chacha20.nonce"} |->
              IF k = "chacha20.key" THEN key ELSE nonce])

\* Chacha20::generate
Chacha20_generate(seed) ==
    LET key   == OsRng(seed, KEY_LEN)
        nonce == OsRng(seed, NONCE_LEN)
    IN  Ok([k \in {"chacha20.key", "chacha20.nonce"} |->
              IF k = "chacha20.key" THEN key ELSE nonce])

(*************************** dispatch (text.rs) ****************************)

Formats == {"Blake3", "Ed25519", "Chacha20Poly1305"}

\* process_text_sign
process_text_sign(reader, key, format) ==
    CASE format = "Blake3" ->
            LET signer == Blake3_try_new(key)
            IN  IF ~IsOk(signer) THEN signer ELSE Blake3_sign(signer.val, reader)
      [] format = "Ed25519" ->
            LET signer == Ed25519Signer_try_new(key)
            IN  IF ~IsOk(signer) THEN signer ELSE Ed25519Signer_sign(signer.val, reader)
      [] OTHER -> Err("unsupported format")

\* process_text_verify
process_text_verify(reader, key, sig, format) ==
    CASE format = "Blake3" ->
            LET verifier == Blake3_try_new(key)
            IN  IF ~IsOk(verifier) THEN verifier
                ELSE Blake3_verify(verifier.val, reader, sig)
      [] format = "Ed25519" ->
            LET verifier == Ed25519Verifier_try_new(key)
            IN  IF ~IsOk(verifier) THEN verifier
                ELSE Ed25519Verifier_verify(verifier.val, reader, sig)
      [] OTHER -> Err("unsupported format")

\* process_text_key_generate; seed stands for the state of the random source
process_text_key_generate(format, seed, overflow_checks) ==
    CASE format = "Blake3" -> Blake3_generate(seed, overflow_checks)
      [] format = "Ed25519" -> Ed25519Signer_generate(seed)
      [] format = "Chacha20Poly1305" -> Chacha20_generate(seed)

\* mutant of process_text_encrypt: the format is not looked at
process_text_encrypt_any(fs, reader, key, format) ==
    LET encryptor == Chacha20_try_new(fs, key)
    IN  IF ~IsOk(encryptor) THEN encryptor
        ELSE Chacha20_encrypt(encryptor.val, reader)

\* process_text_encrypt
process_text_encrypt(fs, reader, key, format) ==
    CASE format = "Chacha20Poly1305" ->
            LET encryptor == Chacha20_try_new(fs, key)
            IN  IF ~IsOk(encryptor) THEN encryptor
                ELSE Chacha20_encrypt(encryptor.val, reader)
      [] OTHER -> Err("unsupported format")

\* process_text_decrypt
process_text_decrypt(fs, ciphertext, key, format) ==
    CASE format = "Chacha20Poly1305" ->
            LET decryptor == Chacha20_try_new(fs, key)
            IN  IF ~IsOk(decryptor) THEN decryptor
                ELSE Chacha20_decrypt(decryptor.val, ciphertext)
      [] OTHER -> Err("unsupported format")

(**************************** src/process/jwt.rs ***************************)

(* A string that is scanned (--exp) is a sequence of one-character strings. *)
(* A token is the sequence <<header, claims, signature>> of its three       *)
(* dot-separated parts.                                                    *)

AUDIENCE == {"tencent", "alibaba", "netease"}

Digits == {"0", "1", "2", "3", "4", "5", "6", "7", "8", "9"}

Units == {"d", "h", "m", "s"}

DigitValue(c) ==
    CASE c = "0" -> 0 [] c = "1" -> 1 [] c = "2" -> 2 [] c = "3" -> 3 [] c = "4" -> 4
      [] c = "5" -> 5 [] c = "6" -> 6 [] c = "7" -> 7 [] c = "8" -> 8 [] c = "9" -> 9

\* str::parse::<i64> on a run of digits (the runs of the inputs are far
\* from the width of i64)
parse_i64(digits) ==
    LET v[j \in 0..Len(digits)] ==
            IF j = 0 THEN 0 ELSE 10 * v[j - 1] + DigitValue(digits[j])
    IN  v[Len(digits)]

\* the end of the longest run of digits of exp that starts at i
DigitRunEnd(exp, i) ==
    CHOOSE j \in i..Len(exp) :
        /\ \A k \in i..j : exp[k] \in Digits
        /\ j = Len(exp) \/ exp[j + 1] \notin Digits

\* Regex (\d+)([dhms]) captures_iter from position i of exp: the leftmost
\* matches, none overlapping another, in order
RECURSIVE captures_iter(_, _)
captures_iter(exp, i) ==
    IF i > Len(exp) THEN <<>>
    ELSE IF exp[i] \notin Digits THEN captures_iter(exp, i + 1)
    ELSE LET j == DigitRunEnd(exp, i)
         IN  IF j < Len(exp) /\ exp[j + 1] \in Units
             THEN <<[value |-> SubSeq(exp, i, j), unit |-> exp[j + 1]]>>
                      \o captures_iter(exp, j + 2)
             ELSE captures_iter(exp, j + 1)

\* Duration::days / hours / minutes / seconds, in seconds
Duration(value, unit) ==
    CASE unit = "d" -> value * SECS_PER_DAY
      [] unit = "h" -> value * SECS_PER_HOUR
      [] unit = "m" -> value * SECS_PER_MINUTE
      [] unit = "s" -> value
      [] OTHER -> value * SECS_PER_DAY

\* the loop of process_jwt_sign over the captures: each match overwrites
\* the duration
RECURSIVE fold_duration(_, _)
fold_duration(caps, duration) ==
    IF caps = <<>> THEN duration
    ELSE fold_duration(Tail(caps),
                       Duration(parse_i64(Head(caps).value), Head(caps).unit))

\* utils::get_content: the bytes of the file at path
get_content(fs, path) ==
    LET reader == get_reader(fs, path)
    IN  IF ~IsOk(reader) THEN reader ELSE read_to_end(reader.val)

\* HMAC-SHA256 of msg under secret, as an ideal MAC: equal exactly for equal
\* secret and message
hmac_sha256(secret, msg) == <<secret, msg>>

\* jsonwebtoken::encode
jwt_encode(header, claims, secret) ==
    Ok(<<header, claims, hmac_sha256(secret, <<header, claims>>)>>)

\* jsonwebtoken::decode under a Validation [alg, aud, leeway] at time now
jwt_decode(token, secret, validation, now) ==
    IF Len(token) # 3 THEN Err("InvalidToken")
    ELSE IF token[1].alg # validation.alg THEN Err("InvalidAlgorithm")
    ELSE IF token[3] # hmac_sha256(secret, <<token[1], token[2]>>)
    THEN Err("InvalidSignature")
    ELSE IF token[2].exp < now - validation.leeway THEN Err("ExpiredSignature")
    ELSE IF token[2].aud \notin validation.aud THEN Err("InvalidAudience")
    ELSE Ok(token[2])

\* process_jwt_sign at time now (Utc::now)
process_jwt_sign(fs, sub, aud, exp, now) ==
    LET duration == fold_duration(captures_iter(exp, 1), DEFAULT_DAYS * SECS_PER_DAY)
        claims   == [sub |-> sub, aud |-> aud, exp |-> now + duration]
        secret   == get_content(fs, SECRET_KEY)
    IN  IF ~IsOk(secret) THEN secret
        ELSE jwt_encode([alg |-> "HS256"], claims, secret.val)

\* mutant of process_jwt_verify: every audience is accepted
process_jwt_verify_anyaud(fs, token, now) ==
    LET secret == get_content(fs, SECRET_KEY)
    IN  IF ~IsOk(secret) THEN secret
        ELSE jwt_decode(token, secret.val,
                        [alg |-> "HS256", leeway |-> LEEWAY,
                         aud |-> IF Len(token) = 3 THEN {token[2].aud} ELSE {}],
                        now)

\* process_jwt_verify at time now
process_jwt_verify(fs, token, now) ==
    LET secret == get_content(fs, SECRET_KEY)
    IN  IF ~IsOk(secret) THEN secret
        ELSE jwt_decode(token, secret.val,
                        [alg |-> "HS256", aud |-> AUDIENCE, leeway |-> LEEWAY], now)

(***************************** src/cli/text.rs *****************************)

\* mutant of from_str: the token is matched without regard to case
from_str_nocase(s) ==
    CASE s \in {"blake3", "Blake3", "BLAKE3"} -> Ok("Blake3")
      [] s \in {"ed25519", "Ed25519", "ED25519"} -> Ok("Ed25519")
      [] s \in {"chacha20poly1305", "Chacha20Poly1305"} -> Ok("Chacha20Poly1305")
      [] OTHER -> Err("invalid format")

\* impl FromStr for TextSignFormat
from_str(s) ==
    CASE s = "blake3" -> Ok("Blake3")
      [] s = "ed25519" -> Ok("Ed25519")
      [] s = "chacha20poly1305" -> Ok("Chacha20Poly1305")
      [] OTHER -> Err("invalid format")

\* the fs::write loop of KeyGenerateOpts::execute: every artifact of the map
\* is written under output_path; files outside Paths are not modelled
write_artifacts(fs, output_path, map) ==
    [p \in Paths |->
        IF p[1] = output_path /\ p[2] \in DOMAIN map THEN File(map[p[2]]) ELSE fs[p]]

(****************************** src/cli/mod.rs *****************************)

\* the name of a path as the command line spells it
PathName(p) == p[1] \o "/" \o p[2]

\* Path::new(file).exists(): file names a directory the program writes into
\* or a file that exists
path_exists(fs, file) ==
    \/ file \in {"fixtures", "out"}
    \/ \E p \in Paths : PathName(p) = file /\ fs[p].exists

\* mutant of verify_file: "-" is looked up like any other name
verify_file_nodash(fs, file) ==
    IF path_exists(fs, file) THEN Ok(file) ELSE Err("File does not exist")

\* verify_file
verify_file(fs, file) ==
    IF file = "-" \/ path_exists(fs, file) THEN Ok(file)
    ELSE Err("File does not exist")

(********************************* inputs **********************************)

\* two keys the caller holds (the output of earlier key generations)
KeyA == OsRng(0, KEY_LEN)

KeyB == OsRng(1, KEY_LEN)

Suffixes == {[i \in 1..n |-> 7] : n \in 0..MaxSuffix}

\* key material: empty, one byte short, exact, over-long, and another key
KeyInputs ==
    {<<>>, Take(KeyA, KEY_LEN - 1), KeyB} \cup {KeyA \o s : s \in Suffixes}

\* public-key material for Ed25519 verification; KeyB is not a curve point
PkInputs ==
    {<<>>, Take(verifying_key(KeyA), KEY_LEN - 1), verifying_key(KeyB), KeyB}
        \cup {verifying_key(KeyA) \o s : s \in Suffixes}

VerifyKeys(format) == IF format = "Ed25519" THEN PkInputs ELSE KeyInputs

Msgs == {[i \in 1..n |-> b] : n \in 0..MaxMsgLen, b \in {0, 1}}

\* readers over each message, and one whose read fails
Readers ==
    {[data |-> m, fails |-> FALSE] : m \in Msgs} \cup {[data |-> <<>>, fails |-> TRUE]}

Tokens ==
    {"blake3", "ed25519", "chacha20poly1305", "Blake3", "BLAKE3", "",
     "blake3 ", "ed25519x", "chacha20", "Chacha20Poly1305"}

\* file arguments: standard input, the two fixture files, a directory and
\* names of nothing
FileArgs ==
    {"-", "fixtures/chacha20.nonce", "fixtures/chacha20.key", "fixtures",
     "*", "not-exist", ""}

\* length: u8 of the genpass command
Lengths == 0..(U8_MOD - 1)

\* <<uppercase, lowercase, number, symbols>> of the genpass command
ClassFlags == BOOLEAN \X BOOLEAN \X BOOLEAN \X BOOLEAN

\* --sub, --aud and --exp of jwt sign
Subs == {"mariana"}

Auds == {"tencent", "alibaba", "netease", "google"}

Exps ==
    {<<"1", "4", "d">>, <<"1", "h">>, <<"2", "m">>, <<"3", "s">>, <<"0", "s">>,
     <<>>, <<"x">>, <<"1", "2">>, <<"d", "1">>, <<"1", "d", "2", "h">>,
     <<"1", "x", "2", "s">>, <<"1", "2", "d", "3">>}

\* Utc::now() when the token is signed, and the seconds that pass until it
\* is verified
SignTime == 1700000000

Elapsed ==
    {0, LEEWAY, LEEWAY + 1, SECS_PER_HOUR, DEFAULT_DAYS * SECS_PER_DAY,
     DEFAULT_DAYS * SECS_PER_DAY + LEEWAY + 1}

\* signatures and ciphertexts that come from nowhere
FixedSigs == {<<>>, [i \in 1..SIG_LEN |-> 0]}

FixedCts == {<<>>, [i \in 1..TAG_LEN |-> 0]}

\* an output as it reaches the next call: intact, with one bit flipped,
\* one byte shorter or one byte longer
Tampers(v) ==
    {v, v \o <<0>>} \cup
    (IF Len(v) = 0 THEN {}
     ELSE {FlipBit(v, 1), FlipBit(v, Len(v)), Take(v, Len(v) - 1)})

Dirs == {"fixtures", "out"}

Seeds == 0..MaxSeed

\* the nonce file as the program may find it
NonceFiles ==
    {File(OsRng(0, NONCE_LEN)), File(OsRng(0, NONCE_LEN - 1)),
     File(OsRng(0, NONCE_LEN + 1)), NoFile}

(****************************** state machine ******************************)

(* A run is one flow of calls: key generations, a first call of a dispatch *)
(* function, of the parser, of verify_file or of a JWT function, at most   *)
(* one key generation after it, and a second call.  The second call        *)
(* repeats the first (possibly with longer key material), or it consumes   *)
(* the first call's output: verify after sign, decrypt after encrypt, jwt   *)
(* verify after jwt sign, with the matching arguments or with one of them  *)
(* (key, input, output, format) replaced.  first and last record the calls *)
(* with their arguments, the nonce and secret files they found and their   *)
(* result.  The password generator runs under a specification of its own.  *)

NoReader == [data |-> <<>>, fails |-> FALSE]

NoCall ==
    [op |-> "none", format |-> "", key |-> <<>>, input |-> NoReader, arg |-> <<>>,
     token |-> "", dir |-> "", nonce |-> NoFile, res |-> Ok(<<>>),
     length |-> 0, classes |-> <<FALSE, FALSE, FALSE, FALSE>>,
     sub |-> "", aud |-> "", exp |-> <<>>, jwt |-> <<>>, now |-> 0,
     secret |-> NoFile]

Init ==
    /\ files \in {[p \in Paths |-> IF p = NONCE_PATH THEN n ELSE File(KeyA)] :
                    n \in NonceFiles} \cup {[p \in Paths |-> NoFile]}
    /\ first = NoCall
    /\ last = NoCall
    /\ pc = "start"

\* the key that checks what the call c signed: the same key for Blake3, the
\* public key of the secret key (SigningKey::verifying_key) for Ed25519
MatchKey(c) ==
    IF c.format = "Ed25519" THEN verifying_key(Take(c.key, KEY_LEN)) ELSE c.key

\* the call rec returns: it is the first or the second call of the flow
Return(rec) ==
    /\ last' = rec
    /\ first' = IF pc = "start" THEN rec ELSE first
    /\ pc' = IF pc = "start" THEN "called" ELSE "done"
    /\ UNCHANGED files

\* <<format, key, reader>> of a call of process_text_sign
SignArgs ==
    IF pc = "start" THEN Formats \X KeyInputs \X Readers
    ELSE IF first.op = "sign"
    THEN {<<first.format, first.key \o s, first.input>> : s \in Suffixes}
    ELSE {}

Sign ==
    /\ pc # "done"
    /\ \E a \in SignArgs :
          Return([NoCall EXCEPT !.op = "sign", !.format = a[1], !.key = a[2],
                                !.input = a[3], !.nonce = files[NONCE_PATH],
                                !.res = process_text_sign(a[3], a[2], a[1])])

\* <<format, key, reader, sig>> of a call of process_text_verify
VerifyArgs ==
    IF pc = "start"
    THEN UNION {{<<f, k, r, s>> : k \in VerifyKeys(f), r \in Readers, s \in FixedSigs} :
                  f \in Formats}
    ELSE IF first.op = "verify"
    THEN {<<first.format, first.key \o s, first.input, first.arg>> : s \in Suffixes}
    ELSE IF first.op = "sign" /\ IsOk(first.res)
    THEN LET f0 == first.format
             k0 == MatchKey(first)
             r0 == first.input
             s0 == first.res.val
         IN  {<<f0, k, r0, s0>> : k \in VerifyKeys(f0)}
                \cup {<<f0, k0, r, s0>> : r \in Readers}
                \cup {<<f0, k0, r0, s>> : s \in Tampers(s0)}
                \cup {<<f, k0, r0, s0>> : f \in Formats}
    ELSE {}

Verify ==
    /\ pc # "done"
    /\ \E a \in VerifyArgs :
          Return([NoCall EXCEPT !.op = "verify", !.format = a[1], !.key = a[2],
                                !.input = a[3], !.arg = a[4],
                                !.nonce = files[NONCE_PATH],
                                !.res = process_text_verify(a[3], a[2], a[4], a[1])])

\* <<format, key, reader>> of a call of process_text_encrypt
EncryptArgs ==
    IF pc = "start" THEN Formats \X KeyInputs \X Readers
    ELSE IF first.op = "encrypt"
    THEN {<<first.format, first.key \o s, first.input>> : s \in Suffixes}
    ELSE {}

Encrypt ==
    /\ pc # "done"
    /\ \E a \in EncryptArgs :
          Return([NoCall EXCEPT !.op = "encrypt", !.format = a[1], !.key = a[2],
                                !.input = a[3], !.nonce = files[NONCE_PATH],
                                !.res = process_text_encrypt(files, a[3], a[2], a[1])])

\* <<format, key, ciphertext>> of a call of process_text_decrypt
DecryptArgs ==
    IF pc = "start" THEN Formats \X KeyInputs \X FixedCts
    ELSE IF first.op = "decrypt"
    THEN {<<first.format, first.key \o s, first.arg>> : s \in Suffixes}
    ELSE IF first.op = "encrypt" /\ IsOk(first.res)
    THEN LET f0 == first.format
             k0 == first.key
             c0 == first.res.val
         IN  {<<f0, k, c0>> : k \in KeyInputs}
                \cup {<<f0, k0, c>> : c \in Tampers(c0)}
                \cup {<<f, k0, c0>> : f \in Formats}
    ELSE {}

Decrypt ==
    /\ pc # "done"
    /\ \E a \in DecryptArgs :
          Return([NoCall EXCEPT !.op = "decrypt", !.format = a[1], !.key = a[2],
                                !.arg = a[3], !.nonce = files[NONCE_PATH],
                                !.res = process_text_decrypt(files, a[3], a[2], a[1])])

\* TextSignFormat::from_str on a format token
ParseArgs ==
    IF pc = "start" THEN Tokens
    ELSE IF first.op = "from_str" THEN {first.token}
    ELSE {}

Parse ==
    /\ pc # "done"
    /\ \E t \in ParseArgs :
          Return([NoCall EXCEPT !.op = "from_str", !.token = t,
                                !.nonce = files[NONCE_PATH], !.res = from_str(t)])

\* verify_file on a file argument (the value parser of --input, --key)
VerifyFileArgs ==
    IF pc = "start" THEN FileArgs
    ELSE IF first.op = "verify_file" THEN {first.token}
    ELSE {}

VerifyFile ==
    /\ pc # "done"
    /\ \E file \in VerifyFileArgs :
          Return([NoCall EXCEPT !.op = "verify_file", !.token = file,
                                !.nonce = files[NONCE_PATH],
                                !.res = verify_file(files, file)])

\* GenPassOpts::execute: one call of process_genpass
GenPass ==
    /\ pc = "start"
    /\ \E length \in Lengths, c \in ClassFlags, seed \in Seeds,
          overflow_checks \in BOOLEAN :
          Return([NoCall EXCEPT !.op = "genpass", !.length = length, !.classes = c,
                                !.nonce = files[NONCE_PATH],
                                !.res = process_genpass(length, c[1], c[2], c[3], c[4],
                                                        seed, overflow_checks)])

\* JwtSignOpts::execute
JwtSign ==
    /\ pc = "start"
    /\ \E sub \in Subs, aud \in Auds, exp \in Exps :
          Return([NoCall EXCEPT !.op = "jwt_sign", !.sub = sub, !.aud = aud,
                                !.exp = exp, !.now = SignTime,
                                !.nonce = files[NONCE_PATH],
                                !.secret = files[SECRET_KEY],
                                !.res = process_jwt_sign(files, sub, aud, exp, SignTime)])

\* <<token, now>> of a call of process_jwt_verify: a token that is none, or
\* the token signed before, as returned or with another audience written
\* into its claims
JwtVerifyArgs ==
    IF pc = "start" THEN {<<(<<>>), SignTime>>}
    ELSE IF first.op = "jwt_sign" /\ IsOk(first.res)
    THEN LET t0 == first.res.val
         IN  {<<t, SignTime + e>> :
                t \in {t0, [t0 EXCEPT ![2].aud = "tencent"]}, e \in Elapsed}
    ELSE {}

\* JwtVerifyOpts::execute
JwtVerify ==
    /\ pc # "done"
    /\ \E a \in JwtVerifyArgs :
          Return([NoCall EXCEPT !.op = "jwt_verify", !.jwt = a[1], !.now = a[2],
                                !.nonce = files[NONCE_PATH],
                                !.secret = files[SECRET_KEY],
                                !.res = process_jwt_verify(files, a[1], a[2])])

\* KeyGenerateOpts::execute: generate, then write every artifact under
\* output_path; last.res is what process_text_key_generate returned
Generate ==
    /\ pc \in {"start", "called"}
    /\ \E format \in Formats, output_path \in Dirs, seed \in Seeds,
          overflow_checks \in BOOLEAN :
          LET key == process_text_key_generate(format, seed, overflow_checks)
          IN  /\ files' = IF IsOk(key) THEN write_artifacts(files, output_path, key.val)
                          ELSE files
              /\ last' = [NoCall EXCEPT !.op = "generate", !.format = format,
                                        !.dir = output_path,
                                        !.nonce = files[NONCE_PATH], !.res = key]
    /\ pc' = IF pc = "called" THEN "regenerated" ELSE pc
    /\ UNCHANGED first

Next ==
    \/ Sign \/ Verify \/ Encrypt \/ Decrypt \/ Parse \/ VerifyFile
    \/ JwtSign \/ JwtVerify \/ Generate

Spec == Init /\ [][Next]_vars

\* the genpass command on its own: every length and every choice of classes
InitGenPass ==
    /\ files = [p \in Paths |-> NoFile]
    /\ first = NoCall
    /\ last = NoCall
    /\ pc = "start"

NextGenPass == GenPass

SpecGenPass == InitGenPass /\ [][NextGenPass]_vars

(********************************* claims **********************************)

DispatchOps == {"sign", "verify", "encrypt", "decrypt"}

SameArgs(a, b) ==
    /\ a.op = b.op
    /\ a.format = b.format
    /\ a.key = b.key
    /\ a.input = b.input
    /\ a.arg = b.arg

\* C1: sign or verify with the Blake3 or Ed25519 format and key material of
\* fewer than 32 bytes returns an error value to the caller (and so neither
\* a signature nor a boolean).
C1_KeySizeRejection ==
    (/\ last.op \in {"sign", "verify"}
     /\ last.format \in {"Blake3", "Ed25519"}
     /\ Len(last.key) < KEY_LEN)
        => last.res.tag = "Err"

\* C2: Ed25519 verify under a well-formed public key, given a signature
\* buffer whose length is not exactly 64 bytes, returns an error; it never
\* returns true or false (and does not abort).
C2_SignatureWidthRejection ==
    (/\ last.op = "verify"
     /\ last.format = "Ed25519"
     /\ IsOk(Ed25519Verifier_try_new(last.key))
     /\ Len(last.arg) # SIG_LEN)
        => last.res.tag = "Err"

\* C3: signing a message with a valid key (Blake3 or Ed25519, at least 32
\* bytes) succeeds, and verifying the same message with the signature it
\* returned and the matching key (the same key for Blake3, the derived
\* public key for Ed25519) returns Ok(true).
C3_SignVerifyRoundTrip ==
    (/\ first.op = "sign"
     /\ first.format \in {"Blake3", "Ed25519"}
     /\ Len(first.key) >= KEY_LEN
     /\ ~first.input.fails)
        => /\ IsOk(first.res)
           /\ (/\ pc = "done"
               /\ last.op = "verify"
               /\ last.format = first.format
               /\ last.key = MatchKey(first)
               /\ last.input = first.input
               /\ last.arg = first.res.val)
                  => last.res = Ok(TRUE)

C3_Witness ==
    /\ pc = "done"
    /\ first.op = "sign"
    /\ first.format = "Ed25519"
    /\ first.input.data = <<1>>
    /\ last.op = "verify"
    /\ last.format = "Ed25519"
    /\ last.key = verifying_key(first.key)
    /\ last.input = first.input
    /\ last.arg = first.res.val
    /\ last.res = Ok(TRUE)

\* C4: encrypting a message with a 32-byte key while a 12-byte nonce file is
\* present succeeds, and decrypting the returned ciphertext with the same
\* key while the nonce file holds the same nonce returns exactly the message.
C4_CipherRoundTrip ==
    (/\ first.op = "encrypt"
     /\ first.format = "Chacha20Poly1305"
     /\ Len(first.key) = KEY_LEN
     /\ first.nonce.exists
     /\ Len(first.nonce.data) = NONCE_LEN
     /\ ~first.input.fails)
        => /\ IsOk(first.res)
           /\ (/\ pc = "done"
               /\ last.op = "decrypt"
               /\ last.format = first.format
               /\ last.key = first.key
               /\ last.arg = first.res.val
               /\ last.nonce = first.nonce)
                  => last.res = Ok(first.input.data)

C4_Witness ==
    /\ pc = "done"
    /\ first.op = "encrypt"
    /\ first.format = "Chacha20Poly1305"
    /\ first.input.data = <<1>>
    /\ IsOk(first.res)
    /\ last.op = "decrypt"
    /\ last.format = "Chacha20Poly1305"
    /\ last.key = first.key
    /\ last.arg = first.res.val
    /\ last.nonce = first.nonce
    /\ last.res = Ok(<<1>>)

Supported(op, format) ==
    \/ op \in {"sign", "verify"} /\ format \in {"Blake3", "Ed25519"}
    \/ op \in {"encrypt", "decrypt"} /\ format = "Chacha20Poly1305"

\* C5: of the 12 (operation, format) pairs exactly sign/verify with Blake3
\* or Ed25519 and encrypt/decrypt with Chacha20Poly1305 are routed to an
\* implementation; every other pair returns the "unsupported format" error
\* whatever the key and the input are.
C5_OperationFormatMismatch ==
    last.op \in DispatchOps =>
        (Supported(last.op, last.format) <=> last.res # Err("unsupported format"))

C5_Witness ==
    /\ last.op = "encrypt"
    /\ last.format = "Ed25519"
    /\ Len(last.key) = KEY_LEN
    /\ ~last.input.fails
    /\ last.res = Err("unsupported format")

C7_CipherKeyValidation ==
    (/\ last.op \in {"encrypt", "decrypt"}
     /\ last.format = "Chacha20Poly1305"
     /\ \/ Len(last.key) # KEY_LEN
        \/ last.nonce.exists /\ Len(last.nonce.data) # NONCE_LEN)
        => last.res.tag = "Err"

\* C8: Blake3 uses only the first 32 bytes of the key material: sign (and
\* verify) with key material K of at least 32 bytes and with K followed by
\* any suffix return the same result for the same input (and signature),
\* and key material longer than 32 bytes is never rejected.
C8_SilentKeyTruncation ==
    /\ (/\ pc = "done"
        /\ last.op \in {"sign", "verify"}
        /\ first.op = last.op
        /\ first.format = "Blake3"
        /\ last.format = "Blake3"
        /\ last.input = first.input
        /\ last.arg = first.arg
        /\ Len(first.key) >= KEY_LEN
        /\ Len(last.key) >= Len(first.key)
        /\ Take(last.key, Len(first.key)) = first.key)
           => last.res = first.res
    /\ (/\ last.op \in {"sign", "verify"}
        /\ last.format = "Blake3"
        /\ Len(last.key) > KEY_LEN
        /\ ~last.input.fails)
           => IsOk(last.res)

C8_Witness ==
    /\ pc = "done"
    /\ first.op = "sign"
    /\ last.op = "sign"
    /\ first.format = "Blake3"
    /\ last.format = "Blake3"
    /\ last.input = first.input
    /\ first.input.data = <<1>>
    /\ Len(first.key) = KEY_LEN
    /\ Len(last.key) > KEY_LEN
    /\ Take(last.key, KEY_LEN) = first.key
    /\ IsOk(last.res)
    /\ last.res = first.res

\* what TextSignFormat::from_str is to return for token t
ExpectedFormat(t) ==
    IF t = "blake3" THEN Ok("Blake3")
    ELSE IF t = "ed25519" THEN Ok("Ed25519")
    ELSE IF t = "chacha20poly1305" THEN Ok("Chacha20Poly1305")
    ELSE Err("invalid format")

\* C9: from_str returns Blake3 for exactly "blake3", Ed25519 for exactly
\* "ed25519", Chacha20Poly1305 for exactly "chacha20poly1305" and the
\* "invalid format" error for every other string (case variants and the
\* empty string included), and a call of it leaves the files as they were.
C9_FormatResolution ==
    [][last'.op = "from_str" =>
          /\ last'.res = ExpectedFormat(last'.token)
          /\ (last'.res.tag = "Ok" <=>
                last'.token \in {"blake3", "ed25519", "chacha20poly1305"})
          /\ files' = files]_vars

C9_Witness ==
    /\ last.op = "from_str"
    /\ last.token = "Blake3"
    /\ last.res = Err("invalid format")

\* C10: key generation succeeds for each format and returns a map with fixed
\* names and sizes: Blake3 -> "blake3.txt" (32 bytes); Ed25519 ->
\* "ed25519.sk" and "ed25519.pk" (32 bytes each, the second the public key
\* of the first); Chacha20Poly1305 -> "chacha20.key" (32 bytes) and
\* "chacha20.nonce" (12 bytes).
C10_KeyGeneration ==
    last.op = "generate" =>
        /\ IsOk(last.res)
        /\ LET map == last.res.val
           IN  CASE last.format = "Blake3" ->
                       /\ DOMAIN map = {"blake3.txt"}
                       /\ Len(map["blake3.txt"]) = 32
                 [] last.format = "Ed25519" ->
                       /\ DOMAIN map = {"ed25519.sk", "ed25519.pk"}
                       /\ Len(map["ed25519.sk"]) = 32
                       /\ Len(map["ed25519.pk"]) = 32
                       /\ map["ed25519.pk"] = verifying_key(map["ed25519.sk"])
                 [] last.format = "Chacha20Poly1305" ->
                       /\ DOMAIN map = {"chacha20.key", "chacha20.nonce"}
                       /\ Len(map["chacha20.key"]) = 32
                       /\ Len(map["chacha20.nonce"]) = 12

C10_Witness ==
    /\ last.op = "generate"
    /\ last.format = "Chacha20Poly1305"
    /\ last.dir = "fixtures"
    /\ IsOk(last.res)
    /\ files[NONCE_PATH] = File(last.res.val["chacha20.nonce"])
    /\ files[NONCE_PATH] # last.nonce

\* byte x with bit e (0 = lowest) flipped
XorBit(x, e) == IF (x \div (2 ^ e)) % 2 = 0 THEN x + 2 ^ e ELSE x - 2 ^ e

\* a and b have the same length and differ in exactly one bit
OneBitApart(a, b) ==
    /\ Len(a) = Len(b)
    /\ \E i \in 1..Len(a), e \in 0..7 : b = [a EXCEPT ![i] = XorBit(a[i], e)]

\* C11: after a successful sign of m with a Blake3 or Ed25519 key, verify
\* with the matching key returns Ok(false) (neither Ok(true) nor an error)
\* when it is given the signature with a message one bit apart from m, or m
\* with a signature of the same length one bit apart from the one returned.
C11_TamperDetection ==
    (/\ pc = "done"
     /\ first.op = "sign"
     /\ IsOk(first.res)
     /\ last.op = "verify"
     /\ last.format = first.format
     /\ last.key = MatchKey(first)
     /\ ~last.input.fails
     /\ \/ /\ OneBitApart(first.input.data, last.input.data)
           /\ last.arg = first.res.val
        \/ /\ last.input = first.input
           /\ OneBitApart(first.res.val, last.arg))
        => last.res = Ok(FALSE)

C11_Witness ==
    /\ pc = "done"
    /\ first.op = "sign"
    /\ first.format = "Ed25519"
    /\ IsOk(first.res)
    /\ last.op = "verify"
    /\ last.format = "Ed25519"
    /\ last.key = verifying_key(first.key)
    /\ last.input = first.input
    /\ last.arg = FlipBit(first.res.val, SIG_LEN)
    /\ last.res = Ok(FALSE)

\* C12: decrypting the output of a successful encrypt returns the error of
\* a failed authentication, and so no plaintext, whenever the ciphertext was
\* modified, the key differs from the encryption key or the nonce file
\* differs from the one found at encryption.
C12_DecryptAuthFailure ==
    (/\ pc = "done"
     /\ first.op = "encrypt"
     /\ IsOk(first.res)
     /\ last.op = "decrypt"
     /\ last.format = "Chacha20Poly1305"
     /\ \/ last.arg # first.res.val
        \/ last.key # first.key
        \/ last.nonce # first.nonce)
        => last.res = Err("aead::Error")

\* C13: after a successful sign of m, verifying m and the signature returns
\* Ok(false) (neither Ok(true) nor an error) for Blake3 under key material
\* whose first 32 bytes differ from the signing key's, and for Ed25519 under
\* a public key (a curve point) that is not the one derived from the secret
\* key that signed.
C13_CrossKeyNegative ==
    (/\ pc = "done"
     /\ first.op = "sign"
     /\ IsOk(first.res)
     /\ last.op = "verify"
     /\ last.format = first.format
     /\ last.input = first.input
     /\ last.arg = first.res.val
     /\ Len(last.key) >= KEY_LEN
     /\ \/ /\ first.format = "Blake3"
           /\ Take(last.key, KEY_LEN) # Take(first.key, KEY_LEN)
        \/ /\ first.format = "Ed25519"
           /\ IsCurvePoint(Take(last.key, KEY_LEN))
           /\ Take(last.key, KEY_LEN) # verifying_key(Take(first.key, KEY_LEN)))
        => last.res = Ok(FALSE)

C13_Witness ==
    /\ pc = "done"
    /\ first.op = "sign"
    /\ first.format = "Blake3"
    /\ first.key = KeyA
    /\ first.input.data = <<1>>
    /\ IsOk(first.res)
    /\ last.op = "verify"
    /\ last.format = "Blake3"
    /\ last.key = KeyB
    /\ last.input = first.input
    /\ last.arg = first.res.val
    /\ last.res = Ok(FALSE)

\* key material no verifier of the format can be built from
MalformedKey(format, key) ==
    \/ Len(key) < KEY_LEN
    \/ format = "Ed25519" /\ ~IsCurvePoint(Take(key, KEY_LEN))

\* a buffer that is not the 64-byte encoding of an Ed25519 signature
MalformedSignature(format, sig) == format = "Ed25519" /\ Len(sig) # SIG_LEN

\* C14: Ed25519 verify with a well-formed public key, a readable stream and
\* a 64-byte signature always returns Ok, and Ok(false) when the signature
\* is not valid for the stream under the key; and process_text_verify
\* returns something other than Ok only for a malformed key, a malformed
\* signature encoding, an unsupported format or a failed read.
C14_InvalidSignatureIsFalse ==
    last.op = "verify" =>
        /\ (/\ last.format = "Ed25519"
            /\ ~MalformedKey(last.format, last.key)
            /\ Len(last.arg) = SIG_LEN
            /\ ~last.input.fails)
               => /\ IsOk(last.res)
                  /\ ~ed25519_verify_ok(Take(last.key, KEY_LEN), last.input.data,
                                        last.arg)
                        => last.res = Ok(FALSE)
        /\ ~IsOk(last.res) =>
               \/ MalformedKey(last.format, last.key)
               \/ MalformedSignature(last.format, last.arg)
               \/ last.format \notin {"Blake3", "Ed25519"}
               \/ last.input.fails

C14_Witness ==
    /\ last.op = "verify"
    /\ last.format = "Ed25519"
    /\ last.key = verifying_key(KeyA)
    /\ last.input.data = <<1>>
    /\ ~last.input.fails
    /\ last.arg = [i \in 1..SIG_LEN |-> 0]
    /\ last.res = Ok(FALSE)

\* the names that exist as paths while the files are fs
ExistingNames(fs) ==
    {"fixtures", "out"} \cup {PathName(p) : p \in {q \in Paths : fs[q].exists}}

\* C15: verify_file(file) returns Ok(file) exactly when file is "-" or the
\* name of an existing path, returns Err("File does not exist") for every
\* other string, and leaves the files as they were.
C15_VerifyFile ==
    [][last'.op = "verify_file" =>
          /\ (last'.token = "-" \/ last'.token \in ExistingNames(files))
                => last'.res = Ok(last'.token)
          /\ ~(last'.token = "-" \/ last'.token \in ExistingNames(files))
                => last'.res = Err("File does not exist")
          /\ files' = files]_vars

C15_Witness ==
    /\ pc = "done"
    /\ first.op = "verify_file"
    /\ first.token = "fixtures/chacha20.nonce"
    /\ first.res = Err("File does not exist")
    /\ last.op = "verify_file"
    /\ last.token = first.token
    /\ last.res = Ok("fixtures/chacha20.nonce")

\* C16: the cipher takes its nonce from fixtures/chacha20.nonce whatever
\* directory keys were generated into: decrypting the output of a successful
\* encrypt with the same key returns the message when that file is the same
\* as at the encrypt, and an error when a key generation in between
\* replaced it with another nonce.
C16_NonceKeyCoupling ==
    (/\ pc = "done"
     /\ first.op = "encrypt"
     /\ IsOk(first.res)
     /\ last.op = "decrypt"
     /\ last.format = first.format
     /\ last.key = first.key
     /\ last.arg = first.res.val)
        => IF last.nonce = first.nonce THEN last.res = Ok(first.input.data)
           ELSE last.res.tag = "Err"

C16_Witness ==
    /\ pc = "done"
    /\ first.op = "encrypt"
    /\ IsOk(first.res)
    /\ first.input.data = <<0>>
    /\ last.op = "decrypt"
    /\ last.format = first.format
    /\ last.key = first.key
    /\ last.arg = first.res.val
    /\ last.nonce # first.nonce
    /\ files[NONCE_PATH] = last.nonce
    /\ last.res = Err("aead::Error")

\* the bytes of s as a set
Bytes(s) == {s[i] : i \in 1..Len(s)}

\* the four classes with the flags that enable them
Classes(c) == {<<c[1], UPPER>>, <<c[2], LOWER>>, <<c[3], NUMBER>>, <<c[4], SYMBOL>>}

\* C17: for every length 0..255 and every choice of classes with at least
\* one enabled, process_genpass returns Ok with a password of exactly length
\* characters that has a character of each enabled class and characters of
\* enabled classes only (so length - password.len() never underflows).
C17_GenPassLength ==
    (/\ last.op = "genpass"
     /\ \E i \in 1..4 : last.classes[i])
        => /\ IsOk(last.res)
           /\ Len(last.res.val) = last.length
           /\ \A k \in Classes(last.classes) :
                 k[1] => Bytes(k[2]) \cap Bytes(last.res.val) # {}
           /\ Bytes(last.res.val) \subseteq
                 UNION {Bytes(k[2]) : k \in {q \in Classes(last.classes) : q[1]}}

\* the seconds the last <digits><d|h|m|s> of exp stands for, 14 days when exp
\* has none: the unit is the last unit letter that follows a digit, the
\* value the whole run of digits before it
ExpectedDuration(exp) ==
    LET ends == {p \in 2..Len(exp) :
                    exp[p] \in {"d", "h", "m", "s"} /\ exp[p - 1] \in Digits}
    IN  IF ends = {} THEN 14 * 24 * 60 * 60
        ELSE LET p == CHOOSE q \in ends : \A o \in ends : o <= q
                 b == CHOOSE i \in 1..(p - 1) :
                        /\ \A k \in i..(p - 1) : exp[k] \in Digits
                        /\ i = 1 \/ exp[i - 1] \notin Digits
                 v == parse_i64(SubSeq(exp, b, p - 1))
             IN  CASE exp[p] = "d" -> v * 24 * 60 * 60
                   [] exp[p] = "h" -> v * 60 * 60
                   [] exp[p] = "m" -> v * 60
                   [] exp[p] = "s" -> v

\* C18: process_jwt_sign succeeds while the secret file exists and gives the
\* token an expiry of the signing time plus the last <digits><d|h|m|s> of exp
\* (14 days if there is none); process_jwt_verify of that token returns Ok
\* with the same sub and aud when aud is tencent, alibaba or netease, the
\* expiry is still ahead and the secret file is the same as at the signing,
\* and returns an error when aud is any other audience.
C18_JwtRoundTrip ==
    /\ (first.op = "jwt_sign" /\ first.secret.exists)
          => /\ IsOk(first.res)
             /\ first.res.val[2].exp = first.now + ExpectedDuration(first.exp)
    /\ (/\ pc = "done"
        /\ first.op = "jwt_sign"
        /\ IsOk(first.res)
        /\ last.op = "jwt_verify"
        /\ last.jwt = first.res.val)
           => /\ (/\ first.aud \in {"tencent", "alibaba", "netease"}
                  /\ first.res.val[2].exp > last.now
                  /\ last.secret = first.secret)
                     => /\ IsOk(last.res)
                        /\ last.res.val.sub = first.sub
                        /\ last.res.val.aud = first.aud
              /\ first.aud \notin {"tencent", "alibaba", "netease"}
                     => last.res.tag = "Err"

C18_Witness ==
    /\ pc = "done"
    /\ first.op = "jwt_sign"
    /\ first.aud = "netease"
    /\ first.exp = <<"1", "d", "2", "h">>
    /\ last.op = "jwt_verify"
    /\ last.jwt = first.res.val
    /\ last.now = first.now + SECS_PER_HOUR
    /\ last.secret = first.secret
    /\ last.res = Ok([sub |-> "mariana", aud |-> "netease",
                      exp |-> first.now + 2 * SECS_PER_HOUR])

====
